---- MODULE Spec2Model ----
(***************************************************************************)
(* Model of src/main.cpp: the callback demonstrations (function pointer,   *)
(* functor, lambda) driven by main over one shared input stream, and the   *)
(* two sorting-predicate demonstrations.                                   *)
(*                                                                         *)
(* Every routine is a sequence of labelled steps; pc holds the label of    *)
(* the statement about to run, main_i the position of main in its list of  *)
(* calls.  log[r] is the trace of routine r: what it printed, what it read *)
(* from std::cin, the random numbers it drew and the handler calls it made.*)
(***************************************************************************)
EXTENDS Integers, Sequences, FiniteSets, TLC

VARIABLES pc, main_i, callLog, exitCode, n, handler, functor, input, log,
          lam, v, v0, ndebug

vars == <<pc, main_i, callLog, exitCode, n, handler, functor, input, log,
          lam, v, v0, ndebug>>

----------------------------------------------------------------------------
(* Bounds of the exploration *)

\* number of values other than the sentinel read from std::cin in one run
MaxNonZero == 2
\* random numbers range over 0..MaxRand
MaxRand == 1
\* the sort harness sorts vectors of at most MaxLen elements ...
MaxLen == 3
\* ... drawn from -MaxVal..MaxVal
MaxVal == 2

----------------------------------------------------------------------------
(* Program constants *)

\* IntHandler1: const int Threshold = 50
Threshold == 50
\* HardcodedHandlerDemo: if (n > 50)
HardcodedThreshold == 50
\* FunctorDemo: NewValueHandler handler(50)
FunctorThreshold == 50
\* LambdaDemo: int threshold = 50
LambdaThreshold == 50

\* what FetchValue may return: the sentinel 0 (also the result of a failed
\* or exhausted extraction, since n is initialised to 0), a value below the
\* threshold, the threshold itself and a value above it
Values == {0, 10, Threshold, 61}

RandValues == 0..MaxRand

Prompt == "Enter the next integer (0 for exit): "
Hello == "Hello from lambda!"

\* the vectors of PredicateDemo and LambdaAsPredicateDemo
DemoVector == <<3, 2, 6, 9, 1, 5>>
v_sorted_increasing == <<1, 2, 3, 5, 6, 9>>
v_sorted_decreasing == <<9, 6, 5, 3, 2, 1>>

\* main with LambdaDemo called before EventHandlerIsLambdaDemo
MainSequenceSwapped ==
  << "HardcodedHandlerDemo", "HandlerSetInRuntimeDemo", "FunctorDemo",
     "EventHandlerPassedAsAnArgumentDemo", "LambdaDemo",
     "EventHandlerIsLambdaDemo", "PredicateDemo", "LambdaAsPredicateDemo" >>

\* the calls of main, in program order
MainSequence ==
  << "HardcodedHandlerDemo", "HandlerSetInRuntimeDemo", "FunctorDemo",
     "EventHandlerPassedAsAnArgumentDemo", "EventHandlerIsLambdaDemo",
     "LambdaDemo", "PredicateDemo", "LambdaAsPredicateDemo" >>

Routines == { MainSequence[k] : k \in 1..Len(MainSequence) }

\* the routine main is currently inside
Cur == MainSequence[main_i]

----------------------------------------------------------------------------
(* Trace events *)

Ev(kind, text, val) == [kind |-> kind, text |-> text, val |-> val]

Out(text, val) == Ev("out", text, val)

Emit(evs) == [log EXCEPT ![Cur] = @ \o evs]

----------------------------------------------------------------------------
(* Handlers *)

\* IntHandler1 with the comparison n >= Threshold
IntHandler1AtLeast(x) == IF x >= Threshold THEN << Out("Alert!", 0) >> ELSE << >>

\* void IntHandler1(int n)
IntHandler1(x) == IF x > Threshold THEN << Out("Alert!", 0) >> ELSE << >>

\* void IntHandler2(int n)
IntHandler2(x) == << Out("New value: ", x) >>

\* the lambda passed to RunEventLoop by EventHandlerIsLambdaDemo
LoopLambda(x) == << Out("New value: ", x) >>

\* NewValueHandler::NewValueHandler(int alert_threshold)
NewValueHandlerCtor(alert_threshold) ==
  [state |-> "alive", alert_threshold_ |-> alert_threshold]

\* a handler object that is never destroyed
NewValueHandlerDtorLeak(f) == f

\* NewValueHandler::~NewValueHandler(), run when the object leaves scope
NewValueHandlerDtor(f) == [f EXCEPT !.state = "destroyed"]

\* NewValueHandler::operator()(int value) const
FunctorCall(f, x) ==
  IF x > f.alert_threshold_ THEN << Out("Alert!", 0) >> ELSE << >>

\* handler(n) on the functor object; a call on an object outside its
\* lifetime is undefined: the "crash" event stands for whatever it does
CallFunctor(f, x) ==
  IF f.state = "alive"
    THEN << Ev("call", "NewValueHandler", x) >> \o FunctorCall(f, x)
    ELSE << Ev("crash", "NewValueHandler", x) >>

\* a call through a NewValueHandlerFnPtr; a call through nullptr is
\* undefined: the "crash" event stands for whatever it does
CallFnPtr(h, x) ==
  << Ev("call", h, x) >> \o
  CASE h = "IntHandler1" -> IntHandler1(x)
    [] h = "IntHandler2" -> IntHandler2(x)
    [] h = "lambda"      -> LoopLambda(x)
    [] OTHER             -> << Ev("crash", h, x) >>

\* a selection that leaves the pointer null for an even number
SelectHandlerNullOnEven(r) == IF r % 2 # 0 THEN "IntHandler1" ELSE "nullptr"

\* (GenerateRandomNumber() % 2) ? IntHandler1 : IntHandler2
SelectHandler(r) == IF r % 2 # 0 THEN "IntHandler1" ELSE "IntHandler2"

\* the inline test with the comparison n >= 50
HardcodedAlertTestAtLeast(x) == x >= HardcodedThreshold

\* HardcodedHandlerDemo: if (n > 50)
HardcodedAlertTest(x) == x > HardcodedThreshold

\* a loop that tests for 10 in place of the sentinel
HardcodedLoopCondWrongSentinel(x) == x # 10

\* a loop condition with the comparison inverted, while (n == 0)
RunEventLoopCondInverted(x) == x = 0

\* the loop conditions, while (n != 0)
HardcodedLoopCond(x) == x # 0
HandlerSetLoopCond(x) == x # 0
FunctorLoopCond(x) == x # 0
RunEventLoopCond(x) == x # 0

\* a loop that tests for the sentinel before it calls the handler
RunEventLoopAfterFetchSkipSentinel(x) == IF x = 0 THEN "R_while" ELSE "R_call"

\* RunEventLoop: the statement that follows n = FetchValue()
RunEventLoopAfterFetch(x) == "R_call"

----------------------------------------------------------------------------
(* FetchValue: prints the prompt, reads one integer from std::cin *)

NonZeros(s) == Len(SelectSeq(s, LAMBDA y : y # 0))

FetchValue(x) ==
  /\ x # 0 => NonZeros(input) < MaxNonZero
  /\ input' = Append(input, x)
  /\ log' = Emit(<< Out(Prompt, 0), Ev("in", "", x) >>)
  /\ n' = x

\* return to main
Return ==
  /\ pc' = "main"
  /\ callLog' = Append(callLog, Ev("return", Cur, 0))

----------------------------------------------------------------------------
Init ==
  /\ pc = "main"
  /\ main_i = 0
  /\ callLog = << >>
  /\ exitCode = -1
  /\ n = 0
  /\ handler = "nullptr"
  /\ functor = [state |-> "none", alert_threshold_ |-> 0]
  /\ input = << >>
  /\ log = [r \in Routines |-> << >>]
  /\ lam = [threshold |-> 0, i |-> 0, j |-> 0, str |-> "", str2 |-> ""]
  /\ v = << >>
  /\ v0 = << >>
  /\ ndebug = FALSE

----------------------------------------------------------------------------
(* main *)

MainCall ==
  /\ pc = "main"
  /\ main_i < Len(MainSequence)
  /\ main_i' = main_i + 1
  /\ pc' = MainSequence[main_i + 1]
  /\ callLog' = Append(callLog, Ev("call", MainSequence[main_i + 1], 0))
  /\ UNCHANGED <<exitCode, n, handler, functor, input, log, lam, v, v0, ndebug>>

MainReturn ==
  /\ pc = "main"
  /\ main_i = Len(MainSequence)
  /\ pc' = "done"
  /\ exitCode' = 0
  /\ UNCHANGED <<main_i, callLog, n, handler, functor, input, log, lam, v, v0, ndebug>>

----------------------------------------------------------------------------
(* HardcodedHandlerDemo *)

H_Enter ==
  /\ pc = "HardcodedHandlerDemo"
  /\ n' = 0
  /\ pc' = "H_fetch"
  /\ UNCHANGED <<main_i, callLog, exitCode, handler, functor, input, log, lam, v, v0, ndebug>>

H_Fetch ==
  /\ pc = "H_fetch"
  /\ \E x \in Values : FetchValue(x)
  /\ pc' = "H_test"
  /\ UNCHANGED <<main_i, callLog, exitCode, handler, functor, lam, v, v0, ndebug>>

H_Test ==
  /\ pc = "H_test"
  /\ log' = Emit(IF HardcodedAlertTest(n) THEN << Out("Alert!", 0) >> ELSE << >>)
  /\ pc' = "H_while"
  /\ UNCHANGED <<main_i, callLog, exitCode, n, handler, functor, input, lam, v, v0, ndebug>>

H_While ==
  /\ pc = "H_while"
  /\ IF HardcodedLoopCond(n)
       THEN pc' = "H_fetch" /\ UNCHANGED callLog
       ELSE Return
  /\ UNCHANGED <<main_i, exitCode, n, handler, functor, input, log, lam, v, v0, ndebug>>

----------------------------------------------------------------------------
(* HandlerSetInRuntimeDemo *)

S_Enter ==
  /\ pc = "HandlerSetInRuntimeDemo"
  /\ handler' = "nullptr"
  /\ pc' = "S_select"
  /\ UNCHANGED <<main_i, callLog, exitCode, n, functor, input, log, lam, v, v0, ndebug>>

S_Select ==
  /\ pc = "S_select"
  /\ \E r \in RandValues :
       /\ handler' = SelectHandler(r)
       /\ log' = Emit(<< Ev("rand", "", r) >>)
  /\ n' = 0
  /\ pc' = "S_fetch"
  /\ UNCHANGED <<main_i, callLog, exitCode, functor, input, lam, v, v0, ndebug>>

S_Fetch ==
  /\ pc = "S_fetch"
  /\ \E x \in Values : FetchValue(x)
  /\ pc' = "S_call"
  /\ UNCHANGED <<main_i, callLog, exitCode, handler, functor, lam, v, v0, ndebug>>

S_Call ==
  /\ pc = "S_call"
  /\ log' = Emit(CallFnPtr(handler, n))
  /\ pc' = "S_while"
  /\ UNCHANGED <<main_i, callLog, exitCode, n, handler, functor, input, lam, v, v0, ndebug>>

S_While ==
  /\ pc = "S_while"
  /\ IF HandlerSetLoopCond(n)
       THEN pc' = "S_fetch" /\ UNCHANGED callLog
       ELSE Return
  /\ UNCHANGED <<main_i, exitCode, n, handler, functor, input, log, lam, v, v0, ndebug>>

----------------------------------------------------------------------------
(* FunctorDemo *)

\* NewValueHandler handler(50): the constructor acquires
F_Construct ==
  /\ pc = "FunctorDemo"
  /\ functor' = NewValueHandlerCtor(FunctorThreshold)
  /\ log' = Emit(<< Ev("ctor", "NewValueHandler", functor'.alert_threshold_) >>)
  /\ n' = 0
  /\ pc' = "F_fetch"
  /\ UNCHANGED <<main_i, callLog, exitCode, handler, input, lam, v, v0, ndebug>>

F_Fetch ==
  /\ pc = "F_fetch"
  /\ \E x \in Values : FetchValue(x)
  /\ pc' = "F_call"
  /\ UNCHANGED <<main_i, callLog, exitCode, handler, functor, lam, v, v0, ndebug>>

F_Call ==
  /\ pc = "F_call"
  /\ log' = Emit(CallFunctor(functor, n))
  /\ pc' = "F_while"
  /\ UNCHANGED <<main_i, callLog, exitCode, n, handler, functor, input, lam, v, v0, ndebug>>

F_While ==
  /\ pc = "F_while"
  /\ pc' = IF FunctorLoopCond(n) THEN "F_fetch" ELSE "F_destroy"
  /\ UNCHANGED <<main_i, callLog, exitCode, n, handler, functor, input, log, lam, v, v0, ndebug>>

\* end of scope: ~NewValueHandler releases
F_Destroy ==
  /\ pc = "F_destroy"
  /\ functor' = NewValueHandlerDtor(functor)
  /\ log' = Emit(IF functor'.state = "destroyed" /\ functor.state = "alive"
                   THEN << Ev("dtor", "NewValueHandler", 0) >> ELSE << >>)
  /\ Return
  /\ UNCHANGED <<main_i, exitCode, n, handler, input, lam, v, v0, ndebug>>

----------------------------------------------------------------------------
(* RunEventLoop, and the two routines that call it *)

A_Enter ==
  /\ pc = "EventHandlerPassedAsAnArgumentDemo"
  /\ handler' = "nullptr"
  /\ pc' = "A_select"
  /\ UNCHANGED <<main_i, callLog, exitCode, n, functor, input, log, lam, v, v0, ndebug>>

A_Select ==
  /\ pc = "A_select"
  /\ \E r \in RandValues :
       /\ handler' = SelectHandler(r)
       /\ log' = Emit(<< Ev("rand", "", r) >>)
  /\ pc' = "RunEventLoop"
  /\ UNCHANGED <<main_i, callLog, exitCode, n, functor, input, lam, v, v0, ndebug>>

E_Enter ==
  /\ pc = "EventHandlerIsLambdaDemo"
  /\ handler' = "lambda"
  /\ pc' = "RunEventLoop"
  /\ UNCHANGED <<main_i, callLog, exitCode, n, functor, input, log, lam, v, v0, ndebug>>

R_Enter ==
  /\ pc = "RunEventLoop"
  /\ n' = 0
  /\ pc' = "R_fetch"
  /\ UNCHANGED <<main_i, callLog, exitCode, handler, functor, input, log, lam, v, v0, ndebug>>

R_Fetch ==
  /\ pc = "R_fetch"
  /\ \E x \in Values : FetchValue(x)
  /\ pc' = RunEventLoopAfterFetch(n')
  /\ UNCHANGED <<main_i, callLog, exitCode, handler, functor, lam, v, v0, ndebug>>

R_Call ==
  /\ pc = "R_call"
  /\ log' = Emit(CallFnPtr(handler, n))
  /\ pc' = "R_while"
  /\ UNCHANGED <<main_i, callLog, exitCode, n, handler, functor, input, lam, v, v0, ndebug>>

\* leaving the loop returns from RunEventLoop and from its caller
R_While ==
  /\ pc = "R_while"
  /\ IF RunEventLoopCond(n)
       THEN pc' = "R_fetch" /\ UNCHANGED callLog
       ELSE Return
  /\ UNCHANGED <<main_i, exitCode, n, handler, functor, input, log, lam, v, v0, ndebug>>

----------------------------------------------------------------------------
(* LambdaDemo.  lam holds the locals of the routine; every lambda is a     *)
(* function from the locals at the call to the locals after it and what it *)
(* printed.  A by-value capture works on the closure's copy, so the locals *)
(* come back as they were; a by-reference capture writes the locals.       *)

Effect(env, out) == [env |-> env, out |-> out]

\* [](int n) { std::cout << "New value: " << n << std::endl; }(123)
L_Immediate(env, x) == Effect(env, << Out("New value: ", x) >>)

\* []() { std::cout << "Hello from lambda!" << std::endl; }()
L_NoArgs(env) == Effect(env, << Out(Hello, 0) >>)

\* [](){}()
L_Empty(env) == Effect(env, << >>)

\* []() { return std::string("Hello from lambda!"); }()
L_ReturnString == Hello

\* [threshold]() { std::cout << threshold << std::endl; }()
L_ByValue(env) ==
  LET copy == [threshold |-> env.threshold]
  IN  Effect(env, << Out("", copy.threshold) >>)

\* [=]() { std::cout << threshold << ", " << i << std::endl; }()
L_ByValueAll(env) ==
  LET copy == [threshold |-> env.threshold, i |-> env.i]
  IN  Effect(env, << Out("", copy.threshold), Out(", ", copy.i) >>)

\* [&i]() { i = 1; }()
L_ByRef(env) == Effect([env EXCEPT !.i = 1], << >>)

\* the same lambda capturing by value: the writes go to the closure's copy
L_ByRefAllCopied(env) == Effect(env, << >>)

\* [&]() { i = 11; j = 22; }()
L_ByRefAll(env) == Effect([env EXCEPT !.i = 11, !.j = 22], << >>)

\* auto lambda = []() { ... }; lambda()
L_Stored(env) == Effect(env, << Out(Hello, 0) >>)

\* one statement of LambdaDemo: run it, move on
L_Step(from, to, eff) ==
  /\ pc = from
  /\ pc' = to
  /\ lam' = eff.env
  /\ log' = Emit(eff.out)
  /\ UNCHANGED <<main_i, callLog, exitCode, n, handler, functor, input, v, v0, ndebug>>

L_CallImmediate == L_Step("LambdaDemo", "L_noargs", L_Immediate(lam, 123))
L_CallNoArgs == L_Step("L_noargs", "L_empty", L_NoArgs(lam))
L_CallEmpty == L_Step("L_empty", "L_str", L_Empty(lam))
L_InitStr == L_Step("L_str", "L_str2", Effect([lam EXCEPT !.str = L_ReturnString], << >>))
L_InitStr2 == L_Step("L_str2", "L_threshold", Effect([lam EXCEPT !.str2 = L_ReturnString], << >>))
L_InitThreshold ==
  L_Step("L_threshold", "L_byvalue", Effect([lam EXCEPT !.threshold = LambdaThreshold], << >>))
L_CallByValue == L_Step("L_byvalue", "L_i", L_ByValue(lam))
L_InitI == L_Step("L_i", "L_byvalueall", Effect([lam EXCEPT !.i = 1], << >>))
L_CallByValueAll == L_Step("L_byvalueall", "L_byref", L_ByValueAll(lam))
L_CallByRef == L_Step("L_byref", "L_j", L_ByRef(lam))
L_InitJ == L_Step("L_j", "L_byrefall", Effect([lam EXCEPT !.j = 2], << >>))
L_CallByRefAll == L_Step("L_byrefall", "L_stored", L_ByRefAll(lam))

L_CallStored ==
  /\ pc = "L_stored"
  /\ lam' = L_Stored(lam).env
  /\ log' = Emit(L_Stored(lam).out)
  /\ Return
  /\ UNCHANGED <<main_i, exitCode, n, handler, functor, input, v, v0, ndebug>>

----------------------------------------------------------------------------
(* PredicateDemo and LambdaAsPredicateDemo *)

\* a Comparer with the natural order
ComparerAscending(a, b) == a < b

\* Comparer::operator()(const int& a, const int& b) const
Comparer(a, b) == a > b

\* [](const int& a, const int& b) -> bool { return a > b; }
SortLambda(a, b) == a > b

\* the predicate of a std::sort call; without one, operator<
Comp(pred, a, b) ==
  CASE pred = "Comparer" -> Comparer(a, b)
    [] pred = "lambda"   -> SortLambda(a, b)
    [] OTHER             -> a < b

RECURSIVE InsertSorted(_, _, _)
InsertSorted(x, s, pred) ==
  IF s = << >> \/ Comp(pred, x, Head(s))
    THEN << x >> \o s
    ELSE << Head(s) >> \o InsertSorted(x, Tail(s), pred)

\* std::sort(v.begin(), v.end(), pred)
RECURSIVE StdSort(_, _)
StdSort(s, pred) ==
  IF s = << >> THEN << >> ELSE InsertSorted(Head(s), StdSort(Tail(s), pred), pred)

\* assert(v == expected): compiled out under NDEBUG, aborts when it fails
AssertEq(expected, to) == IF ndebug \/ v = expected THEN to ELSE "abort"

SortVars == <<main_i, exitCode, n, handler, functor, input, log, lam, ndebug>>

P_Enter ==
  /\ pc = "PredicateDemo"
  /\ v' = DemoVector
  /\ v0' = DemoVector
  /\ pc' = "P_sort1"
  /\ UNCHANGED <<callLog, SortVars>>

P_Sort1 ==
  /\ pc = "P_sort1"
  /\ v' = StdSort(v, "less")
  /\ pc' = "P_assert1"
  /\ UNCHANGED <<callLog, v0, SortVars>>

P_Assert1 ==
  /\ pc = "P_assert1"
  /\ pc' = AssertEq(v_sorted_increasing, "P_sort2")
  /\ UNCHANGED <<callLog, v, v0, SortVars>>

P_Sort2 ==
  /\ pc = "P_sort2"
  /\ v' = StdSort(v, "Comparer")
  /\ pc' = "P_assert2"
  /\ UNCHANGED <<callLog, v0, SortVars>>

P_Assert2 ==
  /\ pc = "P_assert2"
  /\ IF AssertEq(v_sorted_decreasing, "main") = "main"
       THEN Return
       ELSE pc' = "abort" /\ UNCHANGED callLog
  /\ UNCHANGED <<v, v0, SortVars>>

Q_Enter ==
  /\ pc = "LambdaAsPredicateDemo"
  /\ v' = DemoVector
  /\ v0' = DemoVector
  /\ pc' = "Q_sort1"
  /\ UNCHANGED <<callLog, SortVars>>

Q_Sort1 ==
  /\ pc = "Q_sort1"
  /\ v' = StdSort(v, "less")
  /\ pc' = "Q_assert1"
  /\ UNCHANGED <<callLog, v0, SortVars>>

Q_Assert1 ==
  /\ pc = "Q_assert1"
  /\ pc' = AssertEq(v_sorted_increasing, "Q_sort2")
  /\ UNCHANGED <<callLog, v, v0, SortVars>>

Q_Sort2 ==
  /\ pc = "Q_sort2"
  /\ v' = StdSort(v, "lambda")
  /\ pc' = "Q_assert2"
  /\ UNCHANGED <<callLog, v0, SortVars>>

Q_Assert2 ==
  /\ pc = "Q_assert2"
  /\ IF AssertEq(v_sorted_decreasing, "main") = "main"
       THEN Return
       ELSE pc' = "abort" /\ UNCHANGED callLog
  /\ UNCHANGED <<v, v0, SortVars>>

----------------------------------------------------------------------------
Loops ==
  \/ H_Enter \/ H_Fetch \/ H_Test \/ H_While
  \/ S_Enter \/ S_Select \/ S_Fetch \/ S_Call \/ S_While
  \/ F_Construct \/ F_Fetch \/ F_Call \/ F_While \/ F_Destroy
  \/ A_Enter \/ A_Select \/ E_Enter
  \/ R_Enter \/ R_Fetch \/ R_Call \/ R_While

Lambdas ==
  \/ L_CallImmediate \/ L_CallNoArgs \/ L_CallEmpty \/ L_InitStr \/ L_InitStr2
  \/ L_InitThreshold \/ L_CallByValue \/ L_InitI \/ L_CallByValueAll
  \/ L_CallByRef \/ L_InitJ \/ L_CallByRefAll \/ L_CallStored

SortSteps ==
  \/ P_Sort1 \/ P_Assert1 \/ P_Sort2 \/ P_Assert2
  \/ Q_Sort1 \/ Q_Assert1 \/ Q_Sort2 \/ Q_Assert2

Next == MainCall \/ MainReturn \/ Loops \/ Lambdas \/ P_Enter \/ Q_Enter \/ SortSteps

\* the program: main from its first statement, in a build with assert
\* enabled
Spec == Init /\ [][Next]_vars

----------------------------------------------------------------------------
(* The sort routines on arbitrary vectors: a demo routine called on its    *)
(* own, entered with v holding any vector of the bounded set (the demo's   *)
(* own vector among them).                                                 *)

RECURSIVE SeqsUpTo(_, _)
SeqsUpTo(S, k) ==
  IF k = 0 THEN { << >> }
  ELSE LET shorter == SeqsUpTo(S, k - 1)
       IN  shorter \cup { Append(s, x) : s \in shorter, x \in S }

SortInputs == SeqsUpTo((-MaxVal)..MaxVal, MaxLen) \cup { DemoVector }

InitSort ==
  /\ \E k \in {7, 8} :
       /\ main_i = k
       /\ callLog = << Ev("call", MainSequence[k], 0) >>
       /\ pc = IF k = 7 THEN "P_sort1" ELSE "Q_sort1"
  /\ exitCode = -1
  /\ n = 0
  /\ handler = "nullptr"
  /\ functor = [state |-> "none", alert_threshold_ |-> 0]
  /\ input = << >>
  /\ log = [r \in Routines |-> << >>]
  /\ lam = [threshold |-> 0, i |-> 0, j |-> 0, str |-> "", str2 |-> ""]
  /\ v \in SortInputs
  /\ v0 = v
  /\ ndebug \in BOOLEAN

SortSpec == InitSort /\ [][SortSteps]_vars
----------------------------------------------------------------------------
(* Reading the traces *)

OfKind(r, kinds) == SelectSeq(log[r], LAMBDA e : e.kind \in kinds)

ValsOf(evs) == [k \in 1..Len(evs) |-> evs[k].val]

\* the values routine r read, in order
Seg(r) == ValsOf(OfKind(r, {"in"}))

\* the arguments of the handler calls routine r made, in order
Calls(r) == ValsOf(OfKind(r, {"call"}))

\* what routine r read and printed, in order
Observable(r) == OfKind(r, {"in", "out"})

IsPrefix(s, t) == Len(s) <= Len(t) /\ \A k \in 1..Len(s) : s[k] = t[k]

Finished(r) ==
  \E k \in 1..Len(callLog) : callLog[k].kind = "return" /\ callLog[k].text = r

Running(r) == main_i >= 1 /\ main_i <= 8 /\ Cur = r /\ ~Finished(r)

Alert == Out("Alert!", 0)

H == "HardcodedHandlerDemo"
S == "HandlerSetInRuntimeDemo"
F == "FunctorDemo"
A == "EventHandlerPassedAsAnArgumentDemo"
E == "EventHandlerIsLambdaDemo"

LoopOrder == << H, S, F, A, E >>
LoopRoutines == { H, S, F, A, E }

FetchLabels == { "H_fetch", "S_fetch", "F_fetch", "R_fetch" }
WhileLabels == { "H_while", "S_while", "F_while", "R_while" }

\* the zero of s, if any, is its last element
OnlyZeroIsLast(s) == \A k \in 1..Len(s) : s[k] = 0 => k = Len(s)

EndsWithZero(s) == Len(s) > 0 /\ s[Len(s)] = 0

----------------------------------------------------------------------------
(* C1: RunEventLoop(H) invokes H once per value read, with that value and  *)
(* in reading order, the terminating 0 included, and then stops: the       *)
(* handler arguments follow the values read, lag by at most the value just *)
(* read, equal them when the loop has returned, every call goes to the     *)
(* handler passed in, and after the call on 0 nothing more is fetched.     *)
C1_HandlerOncePerValue ==
  \A r \in { A, E } :
    LET seg == Seg(r)
        calls == Calls(r)
        running == Running(r)
    IN
    /\ IsPrefix(calls, seg)
    /\ Len(seg) - Len(calls) <= 1
    /\ Len(seg) # Len(calls) => running /\ pc = "R_call"
    /\ Finished(r) => calls = seg /\ EndsWithZero(seg) /\ OnlyZeroIsLast(seg)
    /\ running /\ EndsWithZero(calls) => pc = "R_while"
    /\ \A k \in 1..Len(log[r]) :
         log[r][k].kind = "call" =>
           /\ r = E => log[r][k].text = "lambda"
           /\ r = A => log[r][k].text \in { "IntHandler1", "IntHandler2" }
           /\ running => log[r][k].text = handler
           /\ k > 1 /\ log[r][k - 1] = Ev("in", "", log[r][k].val)

C1_Witness ==
  /\ Finished(A) /\ Seg(A) = << 61, 10, 0 >> /\ Calls(A) = << 61, 10, 0 >>
  /\ Finished(E) /\ Seg(E) = << 0 >> /\ Calls(E) = << 0 >>

----------------------------------------------------------------------------
(* C2: an event loop ends exactly when 0 is read: a loop that has returned *)
(* read a 0 last, no loop reads past a 0, and a loop that has read 0 is    *)
(* past its fetch and on its way out.                                      *)
C2_TerminatesIffSentinel ==
  \A r \in LoopRoutines :
    LET seg == Seg(r) IN
    /\ Finished(r) => EndsWithZero(seg)
    /\ OnlyZeroIsLast(seg)
    /\ Running(r) /\ EndsWithZero(seg) => pc \notin FetchLabels
    /\ (\A k \in 1..Len(seg) : seg[k] # 0) => ~Finished(r)

C2_Witness ==
  /\ pc = "done"
  /\ Seg(H) = << 61, 0 >> /\ Seg(F) = << 10, 0 >> /\ Seg(E) = << 0 >>

----------------------------------------------------------------------------
ThresholdCall(e) ==
  e.kind = "call" /\ e.text \in { "IntHandler1", "NewValueHandler" }

AlertsIn(r) == Len(SelectSeq(log[r], LAMBDA e : e = Alert))

CallsAbove(r, t) == Len(SelectSeq(log[r], LAMBDA e : ThresholdCall(e) /\ e.val > t))

UsesThresholdHandler(r) ==
  \A k \in 1..Len(log[r]) : log[r][k].kind = "call" => ThresholdCall(log[r][k])

(* C3: a threshold-50 handler (IntHandler1, NewValueHandler(50)) prints    *)
(* "Alert!" for a value exactly when the value is greater than 50: every   *)
(* call with a value above 50 is followed at once by one alert, no other   *)
(* call is, and there are as many alerts as calls with a value above 50.   *)
C3_AlertIffAboveThreshold ==
  \A r \in { S, F, A } :
    UsesThresholdHandler(r) =>
      /\ AlertsIn(r) = CallsAbove(r, 50)
      /\ \A k \in 1..Len(log[r]) :
           /\ ThresholdCall(log[r][k]) =>
                (log[r][k].val > 50 <=> (k < Len(log[r]) /\ log[r][k + 1] = Alert))
           /\ log[r][k] = Alert => (k > 1 /\ ThresholdCall(log[r][k - 1]))
      /\ Seg(r) = << 61, 0 >> /\ Calls(r) = Seg(r) => AlertsIn(r) = 1
      /\ Seg(r) = << 10, 0 >> => AlertsIn(r) = 0

C3_Witness ==
  /\ Finished(S) /\ Seg(S) = << 61, 0 >> /\ AlertsIn(S) = 1
  /\ OfKind(S, {"call"})[1].text = "IntHandler1"
  /\ Finished(F) /\ Seg(F) = << 50, 0 >> /\ AlertsIn(F) = 0

----------------------------------------------------------------------------
Settled(r) ==
  \/ Finished(r)
  \/ Running(r) /\ pc \in (FetchLabels \cup WhileLabels) /\ Len(Seg(r)) > 0

ThresholdVariant(r) ==
  \/ r \in { H, F }
  \/ r = A /\ Len(Calls(r)) > 0
           /\ \A k \in 1..Len(log[r]) :
                log[r][k].kind = "call" => log[r][k].text = "IntHandler1"

(* C5: the loop variants that test against 50 (the inline test of          *)
(* HardcodedHandlerDemo, the functor of FunctorDemo, RunEventLoop with     *)
(* IntHandler1) behave alike: whenever two of them have dealt with the     *)
(* same values, they have read and printed the same things in the same     *)
(* order.                                                                  *)
C5_VariantsEquivalent ==
  \A pair \in { << H, F >>, << H, A >>, << F, A >> } :
    LET r1 == pair[1]
        r2 == pair[2]
    IN  ( /\ Settled(r1) /\ Settled(r2)
          /\ ThresholdVariant(r1) /\ ThresholdVariant(r2)
          /\ Seg(r1) = Seg(r2) )
        => Observable(r1) = Observable(r2)

C5_Witness ==
  /\ Finished(H) /\ Finished(F) /\ Finished(A)
  /\ ThresholdVariant(A)
  /\ Seg(H) = << 61, 0 >> /\ Seg(F) = << 61, 0 >> /\ Seg(A) = << 0 >>
  /\ Observable(F) = Observable(H)
  /\ Observable(H) = << Out(Prompt, 0), Ev("in", "", 61), Alert,
                        Out(Prompt, 0), Ev("in", "", 0) >>

----------------------------------------------------------------------------
(* C6: in LambdaDemo the by-reference lambdas change the locals of the     *)
(* routine (i is 1 after [&i]; i is 11 and j is 22 after [&]) and the      *)
(* by-value lambdas leave them as they were (threshold 50, i 1).           *)
C6_ReferenceCaptureVisible ==
  /\ pc = "L_i" => lam.threshold = 50
  /\ pc = "L_byref" => lam.threshold = 50 /\ lam.i = 1
  /\ pc = "L_j" => lam.i = 1
  /\ pc = "L_stored" \/ Finished("LambdaDemo") =>
       lam.i = 11 /\ lam.j = 22 /\ lam.threshold = 50

C6_Witness == Finished("LambdaDemo") /\ lam.i = 11 /\ lam.j = 22

----------------------------------------------------------------------------
CountKind(r, kind) == Len(OfKind(r, {kind}))

(* C7: FunctorDemo constructs its NewValueHandler once, before the first   *)
(* fetch, destroys it once, after the sentinel was read and handled, and   *)
(* calls it only in between.                                               *)
C7_ScopedAcquisition ==
  LET l == log[F] IN
  /\ CountKind(F, "ctor") <= 1 /\ CountKind(F, "dtor") <= 1
  /\ CountKind(F, "crash") = 0
  /\ Len(l) > 0 => l[1].kind = "ctor"
  /\ \A k \in 1..Len(l) : l[k].kind = "dtor" =>
       /\ k = Len(l)
       /\ EndsWithZero(Seg(F)) /\ Calls(F) = Seg(F)
  /\ Finished(F) => CountKind(F, "ctor") = 1 /\ CountKind(F, "dtor") = 1
                    /\ functor.state = "destroyed"
  /\ Running(F) /\ pc # F => CountKind(F, "ctor") = 1 /\ CountKind(F, "dtor") = 0
                             /\ functor.state = "alive"
  /\ ~Finished(F) /\ ~Running(F) => functor.state = "none" /\ l = << >>

C7_Witness ==
  /\ Finished(F) /\ Seg(F) = << 61, 10, 0 >>
  /\ log[F][Len(log[F])].kind = "dtor"

----------------------------------------------------------------------------
ExpectedCalls ==
  << Ev("call", "HardcodedHandlerDemo", 0), Ev("return", "HardcodedHandlerDemo", 0),
     Ev("call", "HandlerSetInRuntimeDemo", 0), Ev("return", "HandlerSetInRuntimeDemo", 0),
     Ev("call", "FunctorDemo", 0), Ev("return", "FunctorDemo", 0),
     Ev("call", "EventHandlerPassedAsAnArgumentDemo", 0),
     Ev("return", "EventHandlerPassedAsAnArgumentDemo", 0),
     Ev("call", "EventHandlerIsLambdaDemo", 0), Ev("return", "EventHandlerIsLambdaDemo", 0),
     Ev("call", "LambdaDemo", 0), Ev("return", "LambdaDemo", 0),
     Ev("call", "PredicateDemo", 0), Ev("return", "PredicateDemo", 0),
     Ev("call", "LambdaAsPredicateDemo", 0), Ev("return", "LambdaAsPredicateDemo", 0) >>

(* C8: main calls the eight routines one after the other in program order, *)
(* each once and each after the previous has returned, and exits with 0.   *)
C8_RoutinesInSequence ==
  /\ IsPrefix(callLog, ExpectedCalls)
  /\ pc = "done" => callLog = ExpectedCalls /\ exitCode = 0
  /\ exitCode = 0 => pc = "done"
  /\ pc = "main" <=> Len(callLog) % 2 = 0 /\ pc # "done"

C8_Witness == pc = "done" /\ exitCode = 0 /\ Len(callLog) = 16

----------------------------------------------------------------------------
(* C9: HandlerSetInRuntimeDemo and EventHandlerPassedAsAnArgumentDemo draw *)
(* one random number before the first fetch; an odd number selects         *)
(* IntHandler1, an even one IntHandler2; every call of the loop goes to    *)
(* the handler selected and none through a null pointer.                   *)
C9_HandlerSelectedOnce ==
  \A r \in { S, A } :
    LET l == log[r] IN
    /\ CountKind(r, "rand") <= 1
    /\ CountKind(r, "crash") = 0
    /\ Len(l) > 0 => l[1].kind = "rand"
    /\ \A k \in 1..Len(l) :
         l[k].kind = "call" =>
           /\ l[k].text \in { "IntHandler1", "IntHandler2" }
           /\ l[k].text = (IF l[1].val % 2 = 1 THEN "IntHandler1" ELSE "IntHandler2")
           /\ Running(r) => l[k].text = handler

C9_Witness ==
  /\ Finished(S) /\ Finished(A)
  /\ log[S][1] = Ev("rand", "", 1) /\ log[A][1] = Ev("rand", "", 0)
  /\ Len(Calls(S)) = 2 /\ Len(Calls(A)) = 2
  /\ OfKind(S, {"call"})[2].text = "IntHandler1"
  /\ OfKind(A, {"call"})[2].text = "IntHandler2"

----------------------------------------------------------------------------
Zeros(s) == Len(SelectSeq(s, LAMBDA x : x = 0))

\* the k-th part of s, parts ending with each 0
RECURSIVE Part(_, _)
Part(s, k) ==
  IF s = << >> THEN << >>
  ELSE IF k = 1
         THEN IF Head(s) = 0 THEN << 0 >> ELSE << Head(s) >> \o Part(Tail(s), 1)
         ELSE Part(Tail(s), IF Head(s) = 0 THEN k - 1 ELSE k)

PastLoops == pc = "done" \/ main_i > 5 \/ (main_i = 5 /\ pc = "main")

(* C10: the five loops read one stream one after the other, the k-th loop  *)
(* exactly the part after the (k-1)-th 0 up to and including the k-th 0;   *)
(* main gets past the loops only when five 0 were read, and once five 0    *)
(* were read nothing more is read and no assert stops main before its     *)
(* exit.                                                                   *)
C10_SharedStreamSegments ==
  /\ \A k \in 1..5 : Seg(LoopOrder[k]) = Part(input, k)
  /\ input = Seg(H) \o Seg(S) \o Seg(F) \o Seg(A) \o Seg(E)
  /\ PastLoops => Zeros(input) = 5
  /\ Zeros(input) <= 5
  /\ Zeros(input) = 5 =>
       /\ pc \notin FetchLabels
       /\ main_i >= 5
       /\ pc # "abort"

C10_Witness ==
  /\ pc = "done" /\ Len(input) = 7
  /\ Seg(S) = << 10, 0 >> /\ Seg(A) = << 61, 0 >>

----------------------------------------------------------------------------
NonDecreasing(s) == \A k \in 1..(Len(s) - 1) : s[k] <= s[k + 1]

NonIncreasing(s) == \A k \in 1..(Len(s) - 1) : s[k] >= s[k + 1]

Occurrences(s, x) == Cardinality({ k \in 1..Len(s) : s[k] = x })

IsPermutation(s, t) ==
  /\ Len(s) = Len(t)
  /\ \A k \in 1..Len(s) : Occurrences(s, s[k]) = Occurrences(t, s[k])

AfterAscending == { "P_assert1", "P_sort2", "Q_assert1", "Q_sort2" }
AfterDescending == { "P_assert2", "Q_assert2", "main" }

(* C4: std::sort with the natural order leaves the vector non-decreasing,  *)
(* sorting again with the inverse predicate (Comparer, or the lambda)      *)
(* leaves it non-increasing, each time a permutation of the vector the     *)
(* routine started with; the vector of the demos becomes 1 2 3 5 6 9 and   *)
(* then 9 6 5 3 2 1, so neither assert fails.                              *)
C4_SortThenInverseSort ==
  /\ pc \in AfterAscending => NonDecreasing(v) /\ IsPermutation(v, v0)
  /\ pc \in AfterDescending => NonIncreasing(v) /\ IsPermutation(v, v0)
  /\ v0 = << 3, 2, 6, 9, 1, 5 >> =>
       /\ pc # "abort"
       /\ pc \in AfterAscending => v = << 1, 2, 3, 5, 6, 9 >>
       /\ pc \in AfterDescending => v = << 9, 6, 5, 3, 2, 1 >>

C4_Witness ==
  /\ pc = "main" /\ ~ndebug
  /\ v0 = << 3, 2, 6, 9, 1, 5 >> /\ v = << 9, 6, 5, 3, 2, 1 >>
  /\ Finished("PredicateDemo") \/ Finished("LambdaAsPredicateDemo")
====
